---- MODULE Spec2Model ----
(***************************************************************************)
(* Trip planner of the Supercharger Network backend (backend/server.py):   *)
(* the Haversine distance, the plan_trip request handler with its three    *)
(* suspension points, the request validation of TripRequest, and the       *)
(* startup seeding of the station collection.                              *)
(*                                                                         *)
(* Numbers.  Python floats are modelled in fixed point:                    *)
(*   coordinates   degrees  * 10^4  (the seed data has four decimals)      *)
(*   angles, sin, cos, sqrt(a)      * 10^6  (Scale)                        *)
(*   the haversine term a           * 10^9                                 *)
(*   distances     metres (km * 1000)                                      *)
(*   totalTime     hours * TimeDen                                         *)
(* Every rounding truncates toward zero, so that, as in IEEE arithmetic,   *)
(* negating an operand negates the result.                                 *)
(***************************************************************************)
EXTENDS Integers, Sequences, FiniteSets, TLC

Scale   == 1000000
Kilo    == 1000
HalfPi  == 1570796
Pi      == 3141593
TwoPi   == 6283185
QuarterPi == 785398

Abs(x) == IF x < 0 THEN -x ELSE x
Sgn(x) == IF x < 0 THEN -1 ELSE 1
Min(x, y) == IF x <= y THEN x ELSE y
Max(x, y) == IF x >= y THEN x ELSE y

\* floor(x * y / 1000) for x, y >= 0, without leaving 32 bits
MulDivKilo(x, y) == (x \div Kilo) * y + ((x % Kilo) * y) \div Kilo

\* product of two fixed-point numbers (both * Scale), result * Scale
FMul(x, y) == Sgn(x) * Sgn(y) * (MulDivKilo(Abs(x), Abs(y)) \div Kilo)

\* x ** 2 of a fixed-point number (* Scale), result * 10^9
Square(x) == MulDivKilo(Abs(x), Abs(x))

\* ceil(x * x / 1000) for x >= 0
SquareUp(x) == MulDivKilo(x, x) + (IF ((x % Kilo) * (x % Kilo)) % Kilo = 0 THEN 0 ELSE 1)

\* math.radians: degrees * 10^4  ->  radians * Scale   (pi / 180 = 0.01745329...)
radians(deg) == Sgn(deg) * (Abs(deg) + MulDivKilo(Abs(deg), 745329) \div Kilo)

\* Taylor kernels on [0, pi/4]
SinKernel(x) ==
    LET x2 == FMul(x, x)
        t1 == Scale - x2 \div 72
        t2 == Scale - FMul(x2, t1) \div 42
        t3 == Scale - FMul(x2, t2) \div 20
        t4 == Scale - FMul(x2, t3) \div 6
    IN  FMul(x, t4)

CosKernel(x) ==
    LET x2 == FMul(x, x)
        t1 == Scale - x2 \div 56
        t2 == Scale - FMul(x2, t1) \div 30
        t3 == Scale - FMul(x2, t2) \div 12
    IN  Scale - FMul(x2, t3) \div 2

\* sin on [0, pi/2]
SinQuadrant(x) == IF x <= QuarterPi THEN SinKernel(x) ELSE CosKernel(HalfPi - x)

\* math.sin, odd in its argument
sin(x) ==
    LET r == Abs(x) % TwoPi
        v == IF r > Pi THEN -SinQuadrant(IF r - Pi > HalfPi THEN TwoPi - r ELSE r - Pi)
             ELSE SinQuadrant(IF r > HalfPi THEN Pi - r ELSE r)
    IN  Sgn(x) * v

\* math.cos, even in its argument
cos(x) ==
    LET r == Abs(x) % TwoPi
        s == IF r > Pi THEN TwoPi - r ELSE r
    IN  IF s > HalfPi THEN -SinQuadrant(s - HalfPi) ELSE SinQuadrant(HalfPi - s)

\* math.sqrt of a (* 10^9), result * Scale: the largest r with r*r <= a
RECURSIVE SqrtSearch(_, _, _)
SqrtSearch(n, lo, hi) ==
    IF lo >= hi THEN lo
    ELSE LET mid == (lo + hi + 1) \div 2
         IN  IF SquareUp(mid) <= n THEN SqrtSearch(n, mid, hi)
             ELSE SqrtSearch(n, lo, mid - 1)

sqrt(n) == SqrtSearch(n, 0, Scale)

\* math.asin on [0, 1]: the largest angle in [0, pi/2] whose sine is <= y
RECURSIVE AsinSearch(_, _, _)
AsinSearch(y, lo, hi) ==
    IF lo >= hi THEN lo
    ELSE LET mid == (lo + hi + 1) \div 2
         IN  IF SinQuadrant(mid) <= y THEN AsinSearch(y, mid, hi)
             ELSE AsinSearch(y, lo, mid - 1)

asin(y) == AsinSearch(y, 0, HalfPi)

\* x / 2 of an angle
Half(x) == Sgn(x) * (Abs(x) \div 2)

R == 6371

\* A plausible slip in the haversine term: cos(lat1) used for both latitudes.
calculate_distance_onecos(point1, point2) ==
    LET lat1 == radians(point1.lat)
        lon1 == radians(point1.lng)
        lat2 == radians(point2.lat)
        lon2 == radians(point2.lng)
        dlat == lat2 - lat1
        dlon == lon2 - lon1
        a == Square(sin(Half(dlat)))
             + Sgn(FMul(cos(lat1), cos(lat1)))
               * MulDivKilo(Abs(FMul(cos(lat1), cos(lat1))), Square(sin(Half(dlon))) \div Kilo)
        c == 2 * asin(sqrt(a))
    IN  MulDivKilo(c, R)

\* calculate_distance: great-circle distance in metres
calculate_distance(point1, point2) ==
    LET lat1 == radians(point1.lat)
        lon1 == radians(point1.lng)
        lat2 == radians(point2.lat)
        lon2 == radians(point2.lng)
        dlat == lat2 - lat1
        dlon == lon2 - lon1
        a == Square(sin(Half(dlat)))
             + Sgn(FMul(cos(lat1), cos(lat2)))
               * MulDivKilo(Abs(FMul(cos(lat1), cos(lat2))), Square(sin(Half(dlon))) \div Kilo)
        c == 2 * asin(sqrt(a))
    IN  MulDivKilo(c, R)


(***************************************************************************)
(* Data: the seed stations of startup_db, the points and request bodies    *)
(* the model draws from, and the station collections an earlier run may    *)
(* have left in the database.                                              *)
(***************************************************************************)
GeoPoint(lat, lng) == [lat |-> lat, lng |-> lng]

Station(id, name, lat, lng) == [id |-> id, name |-> name, location |-> GeoPoint(lat, lng)]

\* superchargers_data of startup_db (the fields plan_trip reads)
superchargers_data == <<
    Station("seed01", "San Francisco - Fremont Supercharger",     375483, -1219886),
    Station("seed02", "Los Angeles - Santa Monica Supercharger",  340195, -1184912),
    Station("seed03", "San Diego - Mission Valley Supercharger",  327682, -1171649),
    Station("seed04", "Las Vegas - Spring Valley Supercharger",   361070, -1152218),
    Station("seed05", "Phoenix - Scottsdale Supercharger",        334942, -1119261),
    Station("seed06", "Seattle - Bellevue Supercharger",          476101, -1222015),
    Station("seed07", "Portland - Downtown Supercharger",         455152, -1226784),
    Station("seed08", "Denver - Cherry Creek Supercharger",       397294, -1049531),
    Station("seed09", "Austin - Downtown Supercharger",           302672,  -977431),
    Station("seed10", "Chicago - Lincoln Park Supercharger",      419216,  -876499),
    Station("seed11", "New York - Manhattan Supercharger",        407580,  -739855),
    Station("seed12", "Miami - South Beach Supercharger",         257907,  -801300) >>

SanFrancisco == GeoPoint(377749, -1224194)
LosAngeles   == GeoPoint(340522, -1182437)
SanJose      == GeoPoint(373382, -1218863)
NewYork      == GeoPoint(407128,  -740060)

\* the (origin, destination) pairs of the requests
Routes == { <<SanFrancisco, SanFrancisco>>, <<SanFrancisco, SanJose>>,
            <<SanFrancisco, LosAngeles>>,   <<SanFrancisco, NewYork>> }
Charges == {0, 80, 100, 150}
VehicleModels == {"Model 3 Long Range"}

\* Station collections found at the first startup: a fresh database, and a
\* collection whose stations are not in distance order and hold two
\* stations at one location.
PriorStores == {
    << >>,
    << Station("old01", "Las Vegas - Spring Valley Supercharger", 361070, -1152218),
       Station("old02", "Fremont North", 375483, -1219886),
       Station("old03", "Los Angeles - Santa Monica Supercharger", 340195, -1184912),
       Station("old04", "Fremont South", 375483, -1219886) >> }

StationsOf(store) == {store[i] : i \in 1..Len(store)}

AllStations == StationsOf(superchargers_data) \cup UNION {StationsOf(st) : st \in PriorStores}

AllPoints == {r[1] : r \in Routes} \cup {r[2] : r \in Routes} \cup {s.location : s \in AllStations}

\* calculate_distance over the points of the model, computed once
DistanceTable == [p \in AllPoints |-> [q \in AllPoints |-> calculate_distance(p, q)]]

distance(p, q) == DistanceTable[p][q]

(***************************************************************************)
(* The planner: lines 110-149 of plan_trip.                                *)
(***************************************************************************)
range_per_charge == 400

\* 1 / battery_usage_per_km, in metres per percent of charge
MetresPerPercent == (range_per_charge * Kilo) \div 100

\* A plausible slip: >= in the stop-need test, so that the test and the
\* stop count use different comparisons.
NeedsStops_nonstrict(total_distance, current_charge) ==
    total_distance >= current_charge * MetresPerPercent

\* A plausible slip: the stop-need test is left out.
NeedsStops_always(total_distance, current_charge) == TRUE

\* total_distance > current_charge / battery_usage_per_km
NeedsStops(total_distance, current_charge) ==
    total_distance > current_charge * MetresPerPercent

\* math.ceil(n / m), m > 0
Ceil(n, m) == -((-n) \div m)

\* int(n / m), m > 0: truncation toward zero
Trunc(n, m) == Sgn(n) * (Abs(n) \div m)

LegPercent == 80

\* A plausible slip: int(...) in place of math.ceil(...).
num_stops_truncated(total_distance, current_charge) ==
    Trunc(total_distance - current_charge * MetresPerPercent, LegPercent * MetresPerPercent)

\* math.ceil((total_distance * battery_usage_per_km - current_charge) / 80)
num_stops(total_distance, current_charge) ==
    Ceil(total_distance - current_charge * MetresPerPercent, LegPercent * MetresPerPercent)

\* seq[:n]
Slice(seq, n) ==
    IF n >= 0 THEN SubSeq(seq, 1, Min(n, Len(seq)))
    ELSE SubSeq(seq, 1, Max(Len(seq) + n, 0))

\* A plausible slip: an unstable sort, which swaps stations at equal distance.
RECURSIVE sorted_unstable(_, _)
sorted_unstable(seq, origin) ==
    IF seq = << >> THEN << >>
    ELSE LET front == sorted_unstable(SubSeq(seq, 1, Len(seq) - 1), origin)
             x     == seq[Len(seq)]
             k     == Cardinality({i \in 1..Len(front) :
                          distance(origin, front[i].location) < distance(origin, x.location)})
         IN  SubSeq(front, 1, k) \o <<x>> \o SubSeq(front, k + 1, Len(front))

\* A plausible slip: sorted(..., reverse=True), farthest station first.
RECURSIVE sorted_descending(_, _)
sorted_descending(seq, origin) ==
    IF seq = << >> THEN << >>
    ELSE LET front == sorted_descending(SubSeq(seq, 1, Len(seq) - 1), origin)
             x     == seq[Len(seq)]
             k     == Cardinality({i \in 1..Len(front) :
                          distance(origin, front[i].location) >= distance(origin, x.location)})
         IN  SubSeq(front, 1, k) \o <<x>> \o SubSeq(front, k + 1, Len(front))

\* sorted(seq, key = distance from origin): stable insertion
RECURSIVE sorted(_, _)
sorted(seq, origin) ==
    IF seq = << >> THEN << >>
    ELSE LET front == sorted(SubSeq(seq, 1, Len(seq) - 1), origin)
             x     == seq[Len(seq)]
             k     == Cardinality({i \in 1..Len(front) :
                          distance(origin, front[i].location) <= distance(origin, x.location)})
         IN  SubSeq(front, 1, k) \o <<x>> \o SubSeq(front, k + 1, Len(front))

route_superchargers(superchargers, origin, n) == Slice(sorted(superchargers, origin), n)

ArrivalDrop  == 20
ArrivalFloor == 15
ChargeGain   == 60
ChargeCap    == 95

\* A plausible slip: the cap of 95 percent is left out.
departure_charge_nocap(arrival) == arrival + ChargeGain

\* A plausible slip: the floor of 15 percent is left out.
arrival_charge_nofloor(current_charge) == current_charge - ArrivalDrop

arrival_charge(current_charge) == Max(current_charge - ArrivalDrop, ArrivalFloor)

departure_charge(arrival) == Min(arrival + ChargeGain, ChargeCap)

\* int((departure_charge - arrival_charge) * 0.75)
charging_time(arrival, departure) == Trunc((departure - arrival) * 75, 100)

ChargingStop(sc, arrival, departure) ==
    [superchargerId  |-> sc.id,
     arrivalCharge   |-> arrival,
     departureCharge |-> departure,
     chargingTime    |-> charging_time(arrival, departure),
     name            |-> sc.name,
     location        |-> sc.location]

\* the loop over route_superchargers, carrying current_charge
RECURSIVE SimulateStops(_, _)
SimulateStops(route, current_charge) ==
    IF route = << >> THEN << >>
    ELSE LET arrival   == arrival_charge(current_charge)
             departure == departure_charge(arrival)
         IN  <<ChargingStop(route[1], arrival, departure)>>
             \o SimulateStops(Tail(route), departure)

PlanStops(request, superchargers, total_distance) ==
    IF NeedsStops(total_distance, request.currentCharge)
    THEN SimulateStops(
             route_superchargers(superchargers, request.origin,
                                 num_stops(total_distance, request.currentCharge)),
             request.currentCharge)
    ELSE << >>

RECURSIVE SumChargingTime(_)
SumChargingTime(stops) ==
    IF stops = << >> THEN 0 ELSE stops[1].chargingTime + SumChargingTime(Tail(stops))

Speed    == 80
PerHour  == 60
TimeDen  == 240000

\* A plausible slip: the charging minutes are added without the / 60.
total_time_minutes(total_distance, stops) ==
    total_distance * (TimeDen \div (Speed * Kilo)) + SumChargingTime(stops) * TimeDen

\* total_distance / 80 + sum(chargingTime) / 60, in hours * TimeDen
total_time(total_distance, stops) ==
    total_distance * (TimeDen \div (Speed * Kilo)) + SumChargingTime(stops) * (TimeDen \div PerHour)

\* A plausible slip: currentCharge taken from the running current_charge,
\* which the loop has overwritten.
Trip_running_charge(id, request, stops, total_distance) ==
    [id            |-> id,
     origin        |-> request.origin,
     destination   |-> request.destination,
     vehicleModel  |-> request.vehicleModel,
     currentCharge |-> IF stops = << >> THEN request.currentCharge
                       ELSE stops[Len(stops)].departureCharge,
     stops         |-> stops,
     totalDistance |-> total_distance,
     totalTime     |-> total_time(total_distance, stops)]

\* Trip(...)
Trip(id, request, stops, total_distance) ==
    [id            |-> id,
     origin        |-> request.origin,
     destination   |-> request.destination,
     vehicleModel  |-> request.vehicleModel,
     currentCharge |-> request.currentCharge,
     stops         |-> stops,
     totalDistance |-> total_distance,
     totalTime     |-> total_time(total_distance, stops)]

\* the synchronous body of plan_trip between its two awaits
Plan(id, request, superchargers) ==
    LET total_distance == distance(request.origin, request.destination)
    IN  Trip(id, request, PlanStops(request, superchargers, total_distance), total_distance)


\* Inputs of the stop-need test and of num_stops around the point where the
\* test begins to pass: every charge from -100 to 200 with every distance
\* within 2 m of the reach of a charge, of a whole number of 80-percent
\* legs beyond it, and every distance between two points of the model.
SweepCharges == -100..200

SweepDistances ==
    {d \in {c * MetresPerPercent + k * LegPercent * MetresPerPercent + e :
                c \in 0..200, k \in 0..2, e \in -2..2} : d >= 0}
    \cup {DistanceTable[p][q] : p \in AllPoints, q \in AllPoints}

(***************************************************************************)
(* The request boundary: FastAPI validates the JSON body against           *)
(* TripRequest before plan_trip runs, and answers 422 when it fails.       *)
(***************************************************************************)
JsonNumber(n) == [kind |-> "number", num |-> n, str |-> ""]
JsonString(t) == [kind |-> "string", num |-> 0, str |-> t]

JsonPoint(p) == [lat |-> JsonNumber(p.lat), lng |-> JsonNumber(p.lng)]

\* the origin of test_plan_trip_invalid_data
InvalidOrigin == [lat |-> JsonString("invalid"), lng |-> JsonNumber(-1224194)]

\* the JSON bodies of the requests: every route with every charge, and the
\* body of test_plan_trip_invalid_data
Body(origin, destination, model, charge) ==
    [origin |-> origin, destination |-> destination,
     vehicleModel |-> model, currentCharge |-> charge]

Bodies ==
    {Body(JsonPoint(r[1]), JsonPoint(r[2]), m, JsonNumber(c)) :
         r \in Routes, m \in VehicleModels, c \in Charges}
    \cup {Body(InvalidOrigin, JsonPoint(LosAngeles), "Model 3 Long Range", JsonNumber(80))}

\* lat: float, lng: float
ValidGeoPoint(p) == p.lat.kind = "number" /\ p.lng.kind = "number"

\* class TripRequest: origin: GeoPoint, destination: GeoPoint,
\* vehicleModel: str, currentCharge: int
ValidTripRequest(body) ==
    /\ ValidGeoPoint(body.origin)
    /\ ValidGeoPoint(body.destination)
    /\ body.currentCharge.kind = "number"

TripRequest(body) ==
    [origin        |-> GeoPoint(body.origin.lat.num, body.origin.lng.num),
     destination   |-> GeoPoint(body.destination.lat.num, body.destination.lng.num),
     vehicleModel  |-> body.vehicleModel,
     currentCharge |-> body.currentCharge.num]

ToListLength == 1000

\* await db.superchargers.find({}, {"_id": 0}).to_list(1000)
to_list(collection) == SubSeq(collection, 1, Min(Len(collection), ToListLength))

\* A plausible slip: the plan is stored the way save_vehicle_profile stores
\* a profile, one document replaced on every call.
insert_one_replacing(collection, document) == <<document>>

\* await db.trips.insert_one(trip_dict)
insert_one(collection, document) == Append(collection, document)

\* await db.superchargers.insert_many(superchargers_data)
insert_many(collection, documents) == collection \o documents

(***************************************************************************)
(* State.                                                                  *)
(***************************************************************************)
MaxCalls == 2

None == [none |-> TRUE]

VARIABLES
    superchargers,   \* db.superchargers
    trips,           \* db.trips
    phase,           \* "startup", "counted" (inside startup_db), "serving"
    count,           \* startup_db's local count
    calls            \* the plan_trip requests received, in arrival order

vars == <<superchargers, trips, phase, count, calls>>

Init ==
    /\ superchargers \in PriorStores
    /\ trips = << >>
    /\ phase = "startup"
    /\ count = 0
    /\ calls = << >>

\* startup_db up to its first await: count = await db.superchargers.count_documents({})
StartupCount ==
    /\ phase = "startup"
    /\ count' = Len(superchargers)
    /\ phase' = "counted"
    /\ UNCHANGED <<superchargers, trips, calls>>

\* A plausible slip: the count == 0 test is left out and every startup seeds.
StartupSeed_always ==
    /\ phase = "counted"
    /\ superchargers' = insert_many(superchargers, superchargers_data)
    /\ phase' = "serving"
    /\ UNCHANGED <<trips, count, calls>>

\* startup_db from there: if count == 0, insert_many(superchargers_data)
StartupSeed ==
    /\ phase = "counted"
    /\ superchargers' = IF count = 0 THEN insert_many(superchargers, superchargers_data)
                        ELSE superchargers
    /\ phase' = "serving"
    /\ UNCHANGED <<trips, count, calls>>

NewCall(body) ==
    IF ValidTripRequest(body)
    THEN [body |-> body, pc |-> "find", status |-> 0, request |-> TripRequest(body),
          superchargers |-> << >>, trip |-> None, response |-> None]
    ELSE [body |-> body, pc |-> "done", status |-> 422, request |-> None,
          superchargers |-> << >>, trip |-> None, response |-> None]

\* POST /api/trips/plan arrives; the body is validated against TripRequest
Receive(body) ==
    /\ phase = "serving"
    /\ Len(calls) < MaxCalls
    /\ calls' = Append(calls, NewCall(body))
    /\ UNCHANGED <<superchargers, trips, phase, count>>

\* plan_trip line 108: the station collection is read
Find(i) ==
    /\ calls[i].pc = "find"
    /\ calls' = [calls EXCEPT ![i].superchargers = to_list(superchargers),
                              ![i].pc = "insert"]
    /\ UNCHANGED <<superchargers, trips, phase, count>>

\* plan_trip lines 110-152: the plan is computed and inserted into db.trips
InsertTrip(i) ==
    /\ calls[i].pc = "insert"
    /\ LET trip == Plan(i, calls[i].request, calls[i].superchargers)
       IN  /\ trips' = insert_one(trips, trip)
           /\ calls' = [calls EXCEPT ![i].trip = trip, ![i].pc = "return"]
    /\ UNCHANGED <<superchargers, phase, count>>

\* plan_trip line 154: return trip
Return(i) ==
    /\ calls[i].pc = "return"
    /\ calls' = [calls EXCEPT ![i].response = calls[i].trip,
                              ![i].status = 200,
                              ![i].pc = "done"]
    /\ UNCHANGED <<superchargers, trips, phase, count>>

Next ==
    \/ StartupCount
    \/ StartupSeed
    \/ \E body \in Bodies : Receive(body)
    \/ \E i \in 1..Len(calls) : Find(i)
    \/ \E i \in 1..Len(calls) : InsertTrip(i)
    \/ \E i \in 1..Len(calls) : Return(i)

Spec == Init /\ [][Next]_vars


\* the application stops (shutdown_db_client) once its requests are
\* answered, and is started again: startup_db runs once more
Restart ==
    /\ phase = "serving"
    /\ \A i \in 1..Len(calls) : calls[i].pc = "done"
    /\ phase' = "startup"
    /\ UNCHANGED <<superchargers, trips, count, calls>>

NextRestart ==
    \/ Next
    \/ Restart

\* the application over any number of runs against one database
SpecRestart == Init /\ [][NextRestart]_vars

\* GET /api/superchargers: what get_superchargers returns in this state
get_superchargers == to_list(superchargers)

(***************************************************************************)
(* Properties.                                                             *)
(***************************************************************************)
CallIds == 1..Len(calls)

\* the calls that have returned a plan
Returned == {i \in CallIds : calls[i].status = 200}

InRange(charge) == charge \in 0..100

\* C1: a returned plan whose totalDistance is within the reach of the
\* current charge (totalDistance <= currentCharge / batteryUsagePerKm) has
\* zero stops and totalTime = totalDistance / 80; with origin = destination
\* and currentCharge 100, totalDistance = 0, zero stops, totalTime = 0.
C1_NoStopsWithinReach ==
    \A i \in Returned :
        LET req  == calls[i].request
            plan == calls[i].response
        IN  /\ plan.totalDistance <= req.currentCharge * MetresPerPercent
                => /\ plan.stops = << >>
                   /\ plan.totalTime = plan.totalDistance * (TimeDen \div (Speed * Kilo))
            /\ (req.origin = req.destination /\ req.currentCharge = 100)
                => /\ plan.totalDistance = 0
                   /\ plan.stops = << >>
                   /\ plan.totalTime = 0

C1_Witness ==
    /\ \E i \in Returned :
           /\ calls[i].response.totalDistance > 0
           /\ InRange(calls[i].request.currentCharge)
           /\ calls[i].response.totalDistance
                  <= calls[i].request.currentCharge * MetresPerPercent
           /\ calls[i].superchargers # << >>
           /\ calls[i].response.stops = << >>
    /\ \E i \in Returned :
           /\ calls[i].request.origin = calls[i].request.destination
           /\ calls[i].request.currentCharge = 100
           /\ calls[i].superchargers # << >>

\* C2: when the request's currentCharge is in 0..100, every stop of the
\* returned plan has 15 <= arrivalCharge <= departureCharge <= 95 and
\* chargingTime = floor((departureCharge - arrivalCharge) * 0.75).
C2_StopCharges ==
    \A i \in Returned :
        InRange(calls[i].request.currentCharge) =>
            \A k \in 1..Len(calls[i].response.stops) :
                LET stop == calls[i].response.stops[k]
                IN  /\ 15 <= stop.arrivalCharge
                    /\ stop.arrivalCharge <= stop.departureCharge
                    /\ stop.departureCharge <= 95
                    /\ stop.chargingTime
                           = ((stop.departureCharge - stop.arrivalCharge) * 75) \div 100

C2_Witness ==
    \E i \in Returned :
        /\ calls[i].request.currentCharge = 0
        /\ Len(calls[i].response.stops) >= 3
        /\ calls[i].response.stops[1].arrivalCharge = 15
        /\ calls[i].response.stops[1].departureCharge = 75
        /\ calls[i].response.stops[2].departureCharge = 95


\* the stations call i read, and the place of a stop's station among them
Candidates(i) == calls[i].superchargers

Place(i, stop) == CHOOSE j \in 1..Len(Candidates(i)) : Candidates(i)[j].id = stop.superchargerId

FromOrigin(i, point) == distance(calls[i].request.origin, point)

\* C3: the stops of a returned plan are a prefix of the candidate stations
\* in ascending distance from the trip origin: each stop is one of the
\* candidates, stops are in non-decreasing origin distance, no unused
\* station is nearer the origin than a used one, and stations at equal
\* distance keep their input order (among the stops, and between a stop
\* and an unused station).
C3_StopsArePrefixByOriginDistance ==
    \A i \in Returned :
        LET stops == calls[i].response.stops
            used  == {stops[k].superchargerId : k \in 1..Len(stops)}
        IN  /\ Cardinality(used) = Len(stops)
            /\ \A k \in 1..Len(stops) :
                   /\ \E j \in 1..Len(Candidates(i)) :
                          /\ Candidates(i)[j].id = stops[k].superchargerId
                          /\ Candidates(i)[j].name = stops[k].name
                          /\ Candidates(i)[j].location = stops[k].location
                   /\ \A m \in (k + 1)..Len(stops) :
                          /\ FromOrigin(i, stops[k].location) <= FromOrigin(i, stops[m].location)
                          /\ FromOrigin(i, stops[k].location) = FromOrigin(i, stops[m].location)
                                 => Place(i, stops[k]) < Place(i, stops[m])
                   /\ \A j \in 1..Len(Candidates(i)) :
                          Candidates(i)[j].id \notin used =>
                              /\ FromOrigin(i, stops[k].location)
                                     <= FromOrigin(i, Candidates(i)[j].location)
                              /\ FromOrigin(i, stops[k].location)
                                     = FromOrigin(i, Candidates(i)[j].location)
                                     => Place(i, stops[k]) < j

\* a plan with one stop whose station has an unused twin at the same
\* distance, and a plan with two stops at equal distance
C3_Witness ==
    /\ \E i \in Returned :
           /\ Len(calls[i].response.stops) = 1
           /\ \E j \in 1..Len(Candidates(i)) :
                  /\ Candidates(i)[j].id # calls[i].response.stops[1].superchargerId
                  /\ Candidates(i)[j].location = calls[i].response.stops[1].location
                  /\ Candidates(i)[1].id # calls[i].response.stops[1].superchargerId
    /\ \E i \in Returned :
           /\ Len(calls[i].response.stops) >= 2
           /\ calls[i].response.stops[1].location = calls[i].response.stops[2].location

\* the least n with n * 80 >= total_distance * battery_usage_per_km - current_charge
CeilOfNeed(total_distance, current_charge) ==
    CHOOSE n \in -64..64 :
        /\ n * LegPercent * MetresPerPercent >= total_distance - current_charge * MetresPerPercent
        /\ (n - 1) * LegPercent * MetresPerPercent < total_distance - current_charge * MetresPerPercent

\* C4: when totalDistance > currentCharge / batteryUsagePerKm, the returned
\* plan has min(numStops, number of candidate stations) stops, with
\* numStops = ceil((totalDistance * batteryUsagePerKm - currentCharge) / 80).
C4_StopCount ==
    \A i \in Returned :
        LET req  == calls[i].request
            plan == calls[i].response
        IN  plan.totalDistance > req.currentCharge * MetresPerPercent
                => Len(plan.stops) = Min(CeilOfNeed(plan.totalDistance, req.currentCharge),
                                         Len(Candidates(i)))

\* one plan cut short by the station list, one by numStops
C4_Witness ==
    /\ \E i \in Returned :
           /\ CeilOfNeed(calls[i].response.totalDistance, calls[i].request.currentCharge)
                  > Len(Candidates(i))
           /\ Len(calls[i].response.stops) = Len(Candidates(i))
           /\ Len(Candidates(i)) > 0
    /\ \E i \in Returned :
           /\ calls[i].response.totalDistance
                  > calls[i].request.currentCharge * MetresPerPercent
           /\ Len(calls[i].response.stops) >= 1
           /\ Len(calls[i].response.stops) < Len(Candidates(i))

\* C5: totalTime = totalDistance / 80 + (sum of chargingTime) / 60 hours,
\* and with currentCharge in 0..100 totalTime is at least totalDistance / 80.
C5_TotalTime ==
    \A i \in Returned :
        LET plan == calls[i].response
        IN  /\ plan.totalTime
                   = plan.totalDistance * (TimeDen \div (Speed * Kilo))
                     + SumChargingTime(plan.stops) * (TimeDen \div PerHour)
            /\ InRange(calls[i].request.currentCharge)
                   => plan.totalTime >= plan.totalDistance * (TimeDen \div (Speed * Kilo))

\* a plan with stops, whose charging minutes add to the driving time
C5_Witness ==
    \E i \in Returned :
        /\ InRange(calls[i].request.currentCharge)
        /\ Len(calls[i].response.stops) >= 2
        /\ SumChargingTime(calls[i].response.stops) > 0
        /\ calls[i].response.totalTime
               > calls[i].response.totalDistance * (TimeDen \div (Speed * Kilo))


\* C6: the returned plan carries the request's origin, destination,
\* vehicleModel and currentCharge unchanged, whatever the number of stops;
\* its currentCharge is the starting charge sent in the request.
C6_RequestFieldsKept ==
    \A i \in Returned :
        LET body == calls[i].body
            plan == calls[i].response
        IN  /\ plan.origin = GeoPoint(body.origin.lat.num, body.origin.lng.num)
            /\ plan.destination = GeoPoint(body.destination.lat.num, body.destination.lng.num)
            /\ plan.vehicleModel = body.vehicleModel
            /\ plan.currentCharge = body.currentCharge.num

\* a plan whose last stop leaves with a charge other than the starting one
C6_Witness ==
    \E i \in Returned :
        LET stops == calls[i].response.stops
        IN  /\ Len(stops) >= 1
            /\ stops[Len(stops)].departureCharge # calls[i].body.currentCharge.num
            /\ calls[i].response.currentCharge = calls[i].body.currentCharge.num

\* the request of test_plan_trip, answered from the 12 seed stations
IsSeedScenario(i) ==
    /\ calls[i].request.origin = GeoPoint(377749, -1224194)
    /\ calls[i].request.destination = GeoPoint(340522, -1182437)
    /\ calls[i].request.currentCharge = 80
    /\ Candidates(i) = superchargers_data

\* C7: San Francisco to Los Angeles with currentCharge 80 against the 12
\* seed stations: totalDistance is about 559 km, the plan has at least one
\* stop, and the first stop is the seed station nearest the origin.
C7_SeedScenario ==
    \A i \in Returned :
        IsSeedScenario(i) =>
            LET plan == calls[i].response
            IN  /\ plan.totalDistance >= 558500
                /\ plan.totalDistance <= 559500
                /\ plan.totalDistance > 320 * Kilo
                /\ Len(plan.stops) >= 1
                /\ \E j \in 1..Len(superchargers_data) :
                       /\ superchargers_data[j].id = plan.stops[1].superchargerId
                       /\ \A m \in 1..Len(superchargers_data) :
                              m # j => distance(plan.origin, superchargers_data[j].location)
                                           < distance(plan.origin, superchargers_data[m].location)

C7_Witness ==
    \E i \in Returned :
        /\ IsSeedScenario(i)
        /\ Len(superchargers) = 12
        /\ calls[i].response.stops[1].name = "San Francisco - Fremont Supercharger"

\* what the claim calls a malformed request body
Malformed(body) ==
    \/ body.origin.lat.kind # "number"
    \/ body.origin.lng.kind # "number"
    \/ body.destination.lat.kind # "number"
    \/ body.destination.lng.kind # "number"
    \/ body.currentCharge.kind # "number"
    \/ body.currentCharge.num \notin 0..100

\* C8: a malformed request (a non-numeric coordinate, or a currentCharge
\* outside 0..100) ends in a validation error (422) before planning begins:
\* no plan is computed or returned and no trip record is inserted.
C8_MalformedRejected ==
    \A i \in CallIds :
        Malformed(calls[i].body) =>
            /\ calls[i].pc = "done"
            /\ calls[i].status = 422
            /\ calls[i].trip = None
            /\ calls[i].response = None
            /\ \A k \in 1..Len(trips) : trips[k].id # i

\* C9: under every interleaving, the plan a call returns is the plan its
\* request yields on its own from the station collection, and the trip
\* collection holds exactly one record of the call, equal to that plan.
C9_CallsDoNotInterfere ==
    \A i \in Returned :
        /\ calls[i].response = Plan(i, TripRequest(calls[i].body), to_list(superchargers))
        /\ Cardinality({k \in 1..Len(trips) : trips[k].id = i}) = 1
        /\ \E k \in 1..Len(trips) : trips[k] = calls[i].response

\* two calls whose steps overlapped: the later request inserted first
C9_Witness ==
    /\ Len(calls) >= 2
    /\ {1, 2} \subseteq Returned
    /\ Len(trips) >= 2
    /\ trips[1].id = 2
    /\ trips[2].id = 1
    /\ trips[1].stops # trips[2].stops

\* C10: calculate_distance(a, b) = calculate_distance(b, a): every distance
\* a plan was built from (origin to destination, origin to each stop) is
\* the distance measured the other way round.
C10_DistanceSymmetric ==
    \A k \in 1..Len(trips) :
        /\ trips[k].totalDistance = distance(trips[k].destination, trips[k].origin)
        /\ \A m \in 1..Len(trips[k].stops) :
               distance(trips[k].origin, trips[k].stops[m].location)
                   = distance(trips[k].stops[m].location, trips[k].origin)

\* a planned trip between two points that differ in latitude and longitude
C10_Witness ==
    \E k \in 1..Len(trips) :
        /\ trips[k].origin.lat # trips[k].destination.lat
        /\ trips[k].origin.lng # trips[k].destination.lng
        /\ trips[k].totalDistance > 0
        /\ trips[k].stops # << >>


\* the station collection holds no document of an earlier writer: it is as
\* the startups of the application have made it from an empty collection
SeededFromEmpty ==
    \A j \in 1..Len(superchargers) : superchargers[j] \in StationsOf(superchargers_data)

\* C11: startup seeding is idempotent.  From an empty station collection,
\* after any number of startups one after another the collection holds
\* exactly the 12 seed stations and GET /superchargers returns exactly
\* those 12; a startup that finds a non-empty collection inserts nothing.
C11_SeedingIdempotent ==
    /\ [](SeededFromEmpty =>
             IF phase = "serving"
             THEN /\ Len(get_superchargers) = 12
                  /\ get_superchargers = superchargers_data
                  /\ superchargers = superchargers_data
             ELSE superchargers \in {<< >>, superchargers_data})
    /\ [][(phase = "counted" /\ count # 0) => superchargers' = superchargers]_vars

\* the application serves again after a startup that counted the 12 seed
\* stations of an earlier startup
C11_Witness ==
    /\ phase = "serving"
    /\ count = 12
    /\ superchargers = superchargers_data
    /\ Len(get_superchargers) = 12


\* the stop-need test passes for no swept input with a stop count below 1
SweepStopCountPositive ==
    \A c \in SweepCharges : \A d \in SweepDistances :
        NeedsStops(d, c) => num_stops(d, c) >= 1

\* C12 as amended: whenever the stop-need test passes
\* (totalDistance > currentCharge / batteryUsagePerKm), numStops =
\* ceil((totalDistance * batteryUsagePerKm - currentCharge) / 80) is at
\* least 1, so the slice of the sorted stations is never taken with a
\* non-positive count.
C12_StopCountPositive ==
    /\ SweepStopCountPositive
    /\ \A i \in Returned :
           LET d == calls[i].response.totalDistance
               c == calls[i].request.currentCharge
           IN  NeedsStops(d, c) =>
                   /\ num_stops(d, c) >= 1
                   /\ Candidates(i) # << >> => Len(calls[i].response.stops) >= 1

\* a returned plan for which the test passes by the least margin the
\* requests offer, planned with exactly one stop
C12_Witness ==
    \E i \in Returned :
        /\ NeedsStops(calls[i].response.totalDistance, calls[i].request.currentCharge)
        /\ num_stops(calls[i].response.totalDistance, calls[i].request.currentCharge) = 1
        /\ Len(calls[i].response.stops) = 1
        /\ calls[i].request.currentCharge = 0

\* C12 as claimed: there are a totalDistance and an integer currentCharge
\* for which the stop-need test passes and yet numStops is zero or
\* negative, so that the slice is taken with a non-positive count.
C12_NonPositiveStopCountExists ==
    \/ \E c \in SweepCharges : \E d \in SweepDistances :
           NeedsStops(d, c) /\ num_stops(d, c) <= 0
    \/ \E i \in Returned :
           /\ NeedsStops(calls[i].response.totalDistance, calls[i].request.currentCharge)
           /\ num_stops(calls[i].response.totalDistance, calls[i].request.currentCharge) <= 0

\* C13: with currentCharge in 0..100 the simulation reaches a fixed point
\* after two stops: every stop from the second on leaves with 95, and every
\* stop from the third on has arrivalCharge 75, departureCharge 95 and
\* chargingTime 15, whatever the starting charge and the stations.
C13_FixedPointAfterTwoStops ==
    \A i \in Returned :
        InRange(calls[i].request.currentCharge) =>
            \A k \in 1..Len(calls[i].response.stops) :
                LET stop == calls[i].response.stops[k]
                IN  /\ k >= 2 => stop.departureCharge = 95
                    /\ k >= 3 => /\ stop.arrivalCharge = 75
                                 /\ stop.departureCharge = 95
                                 /\ stop.chargingTime = 15

\* two plans of three or more stops from different starting charges and
\* different station collections, whose first two stops differ
C13_Witness ==
    \E i \in Returned, j \in Returned :
        /\ InRange(calls[i].request.currentCharge)
        /\ InRange(calls[j].request.currentCharge)
        /\ calls[i].request.currentCharge # calls[j].request.currentCharge
        /\ Len(calls[i].response.stops) >= 4
        /\ Len(calls[j].response.stops) >= 4
        /\ calls[i].response.stops[1].arrivalCharge # calls[j].response.stops[1].arrivalCharge
        /\ calls[i].response.stops[2].arrivalCharge # 75
        /\ calls[i].response.stops[3] # calls[i].response.stops[4]

====
